---------------------------- MODULE Spec2Model ----------------------------
(***************************************************************************)
(* A model of theia-update-plugins (src/src/lib.rs, src/src/main.rs).      *)
(*                                                                         *)
(*   Spec         the upgrade run: main's loop over the registries, the    *)
(*                spawned upgrade tasks, the plugin directory, the GETs.   *)
(*   VersionSpec  Version::from_str and the derived comparison.            *)
(*   JsonSpec     TheiaPluginAPI::search_version / search_download.        *)
(*   ArchiveSpec  TheiaPluginLCL::installing on one archive.               *)
(*                                                                         *)
(* Text is a sequence of one-character strings, Option<T> is a sequence of *)
(* length 0 (None) or 1 (Some).                                            *)
(***************************************************************************)
EXTENDS Integers, Sequences, FiniteSets, TLC

VARIABLES
    \* ---- Spec: the upgrade run
    config,        \* per registry: are prefix, version and download all present
    mainpc,        \* where main is: "loop", "spawn", "join", "done"
    domain,        \* index of the registry main's for loop is at
    future_list,   \* the units spawned in this iteration of the loop
    pc,            \* per unit: where the upgrade task is
    version_old,   \* per unit: the installed version read (Option)
    version_new,   \* per unit: the latest version resolved (Option)
    download,      \* per unit: the download URL resolved (Option)
    outcome,       \* per unit: what the download and the installation returned
    fs,            \* the filesystem: path -> file
    net,           \* the GET requests issued so far
    written,       \* per unit: the paths its installation wrote
    \* ---- VersionSpec
    verA, verB,    \* two version strings
    verPA, verPB,  \* their parse results (Option<Result>)
    verOrd,        \* the comparison of the parsed versions (Option)
    \* ---- JsonSpec
    api,           \* the registry's path descriptors: [version, download]
    json,          \* the JSON document of the response
    found,         \* what search_version and search_download returned
    \* ---- ArchiveSpec
    arName,        \* the plugin name an archive is installed for
    arData,        \* the downloaded bytes
    arFault,       \* the I/O failure met during the installation
    arFiles,       \* the filesystem before the installation
    arResult       \* what installing returned (Option)

orchVars == <<config, mainpc, domain, future_list, pc, version_old, version_new,
              download, outcome, fs, net, written>>
verVars  == <<verA, verB, verPA, verPB, verOrd>>
jsonVars == <<api, json, found>>
arVars   == <<arName, arData, arFault, arFiles, arResult>>
pureVars == <<verVars, jsonVars, arVars>>
vars     == <<orchVars, pureVars>>

None == <<>>
Some(x) == <<x>>

-----------------------------------------------------------------------------
(* Bounds *)

\* longest generated version string
MaxLen == 5
\* nesting depth of the generated JSON documents
MaxDepth == 3
\* most entries in a downloaded archive
MaxEntries == 2

-----------------------------------------------------------------------------
(* Version (lib.rs 191-216) *)

DigitVal == [c \in {"0", "1", "2", "3", "4", "5", "6", "7", "8", "9"} |->
               CASE c = "0" -> 0 [] c = "1" -> 1 [] c = "2" -> 2 [] c = "3" -> 3
                 [] c = "4" -> 4 [] c = "5" -> 5 [] c = "6" -> 6 [] c = "7" -> 7
                 [] c = "8" -> 8 [] c = "9" -> 9]

is_ascii_digit(c) == c \in DOMAIN DigitVal

\* s.split('.'): the pieces between the dots; a string without a dot is one piece
RECURSIVE Split(_)
Split(s) ==
    IF \A i \in 1..Len(s) : s[i] # "."
    THEN <<s>>
    ELSE LET i == CHOOSE k \in 1..Len(s) :
                      s[k] = "." /\ \A j \in 1..(k - 1) : s[j] # "."
         IN  <<SubSeq(s, 1, i - 1)>> \o Split(SubSeq(s, i + 1, Len(s)))

\* chars().filter(|x| x.is_ascii_digit()).collect()
FilterDigits(s) == SelectSeq(s, is_ascii_digit)

RECURSIVE DigitsValue(_, _)
DigitsValue(s, acc) ==
    IF s = <<>> THEN acc ELSE DigitsValue(Tail(s), acc * 10 + DigitVal[Head(s)])

\* str::parse::<u32>(): an optional '+', then one or more digits.  The texts of
\* this model have fewer than ten digits, so the value always fits in a u32.
ParseU32(s) ==
    LET digits == IF s # <<>> /\ Head(s) = "+" THEN Tail(s) ELSE s
    IN  IF digits = <<>> \/ \E i \in 1..Len(digits) : ~is_ascii_digit(digits[i])
        THEN [ok |-> FALSE]
        ELSE [ok |-> TRUE, v |-> DigitsValue(digits, 0)]

\* <Version as FromStr>::from_str
FromStr(s) ==
    LET iter == Split(s)
    IN  IF Len(iter) >= 3
        THEN LET major == ParseU32(FilterDigits(iter[1]))
                 minor == ParseU32(iter[2])
                 patch == ParseU32(iter[3])
             IN  IF major.ok /\ minor.ok /\ patch.ok
                 THEN [ok |-> TRUE,
                       v |-> [major |-> major.v, minor |-> minor.v, patch |-> patch.v]]
                 ELSE [ok |-> FALSE]
        ELSE [ok |-> TRUE, v |-> [major |-> 0, minor |-> 0, patch |-> 0]]

CmpU32(x, y) == IF x < y THEN "Less" ELSE IF x > y THEN "Greater" ELSE "Equal"

\* a comparison that looks at the patch before the minor
CmpPatchFirst(a, b) ==
    IF CmpU32(a.major, b.major) # "Equal" THEN CmpU32(a.major, b.major)
    ELSE IF CmpU32(a.patch, b.patch) # "Equal" THEN CmpU32(a.patch, b.patch)
    ELSE CmpU32(a.minor, b.minor)

\* #[derive(Ord, PartialOrd)]: the fields in declaration order
Cmp(a, b) ==
    IF CmpU32(a.major, b.major) # "Equal" THEN CmpU32(a.major, b.major)
    ELSE IF CmpU32(a.minor, b.minor) # "Equal" THEN CmpU32(a.minor, b.minor)
    ELSE CmpU32(a.patch, b.patch)

\* #[derive(Eq, PartialEq)]: every field equal
Eq(a, b) == a.major = b.major /\ a.minor = b.minor /\ a.patch = b.patch

-----------------------------------------------------------------------------
(* TheiaPluginAPI: the walk through the JSON response (lib.rs 76-102) *)

JString(s) == [t |-> "string", s |-> s]
JNumber    == [t |-> "number"]
JArray(a)  == [t |-> "array", a |-> a]
JObject(m) == [t |-> "object", m |-> m]

\* serde_json::Value::get(&str): the member of an object, None otherwise
Get(value, key) ==
    IF value.t = "object" /\ key \in DOMAIN value.m THEN Some(value.m[key]) ELSE None

\* serde_json::Value::get(0): the first element of an array, None otherwise
Get0(value) ==
    IF value.t = "array" /\ Len(value.a) >= 1 THEN Some(value.a[1]) ELSE None

\* a descent into the last element of the array
GetLast(value) ==
    IF value.t = "array" /\ Len(value.a) >= 1 THEN Some(value.a[Len(value.a)]) ELSE None

\* serde_json::Value::is_array
is_array(value) == value.t = "array"

\* serde_json::Value::as_str
as_str(value) == IF value.t = "string" THEN Some(value.s) ELSE None

\* a walk that descends into the last element of an array
RECURSIVE WalkLast(_, _, _)
WalkLast(node, path, i) ==
    IF i > Len(path) THEN as_str(node)
    ELSE IF Get(node, path[i]) = None THEN None
    ELSE LET next == Get(node, path[i])[1]
         IN  IF is_array(next)
             THEN IF GetLast(next) = None THEN None
                  ELSE WalkLast(GetLast(next)[1], path, i + 1)
             ELSE WalkLast(next, path, i + 1)

\* the loop of search_version and search_download from item i of the path on:
\* apply the key, then, if what it gives is an array, take its element 0
RECURSIVE Walk(_, _, _)
Walk(node, path, i) ==
    IF i > Len(path) THEN as_str(node)
    ELSE IF Get(node, path[i]) = None THEN None
    ELSE LET next == Get(node, path[i])[1]
         IN  IF is_array(next)
             THEN IF Get0(next) = None THEN None
                  ELSE Walk(Get0(next)[1], path, i + 1)
             ELSE Walk(next, path, i + 1)

search_version(self, doc) == Walk(doc, self.version, 1)

search_download(self, doc) == Walk(doc, self.download, 1)

\* parse_json, on a body that is malformed or holds a document
parse_json(self, body) ==
    IF ~body.wellformed THEN [ok |-> FALSE, e |-> "json"]
    ELSE IF search_version(self, body.doc) = None
         THEN [ok |-> FALSE, e |-> "not find version"]
    ELSE IF ~FromStr(search_version(self, body.doc)[1]).ok
         THEN [ok |-> FALSE, e |-> "version error"]
    ELSE IF search_download(self, body.doc) = None
         THEN [ok |-> FALSE, e |-> "not find download"]
    ELSE [ok |-> TRUE,
          version |-> FromStr(search_version(self, body.doc)[1]).v,
          download |-> search_download(self, body.doc)[1]]

-----------------------------------------------------------------------------
(* TheiaPluginLCL: the manifest (lib.rs 115-147) *)

\* An XML text is the sequence of events quick_xml reads from it:
\* [kind: "Start" | "Empty" | "End" | "Error", name, attributes]; an attribute
\* is [key, value, ok], ok FALSE for one the reader cannot parse; a value that
\* is not UTF-8 is the text <<"?">> with utf8 FALSE.

\* the attributes of the Identity element, from item i on
RECURSIVE FindVersion(_, _)
FindVersion(attributes, i) ==
    IF i > Len(attributes) THEN None
    ELSE IF attributes[i].ok /\ attributes[i].key = "Version"
         THEN (IF attributes[i].utf8 THEN Some(attributes[i].value) ELSE None)
    ELSE FindVersion(attributes, i + 1)

\* TheiaPluginLCL::search_version: the loop over the events from item i on
RECURSIVE ScanEvents(_, _)
ScanEvents(events, i) ==
    IF i > Len(events) THEN None                            \* Event::Eof
    ELSE IF events[i].kind = "Error" THEN None              \* read_event(..).ok()?
    ELSE IF events[i].kind = "Empty" /\ events[i].name = "Identity"
         THEN FindVersion(events[i].attributes, 1)
    ELSE ScanEvents(events, i + 1)

xml_search_version(content) == ScanEvents(content, 1)

-----------------------------------------------------------------------------
(* Paths and files *)

\* A path is the sequence of its components; an absolute one starts with "/".
\* A file is [content, mode]; a content is a text (its XML events) or bytes
\* that are no UTF-8 text.

\* Path::join: an absolute right-hand side replaces the left-hand side
Join(base, rel) == IF rel # <<>> /\ rel[1] = "/" THEN rel ELSE base \o rel

\* the file the operating system opens for a path: ".." leaves a directory
RECURSIVE Resolve(_, _)
Resolve(done, rest) ==
    IF rest = <<>> THEN done
    ELSE IF Head(rest) = ".."
         THEN Resolve(IF Len(done) > 1 THEN SubSeq(done, 1, Len(done) - 1) ELSE done,
                      Tail(rest))
    ELSE Resolve(Append(done, Head(rest)), Tail(rest))

FileAt(path) == Resolve(<<>>, path)

Text(events) == [kind |-> "text", events |-> events]
Bytes == [kind |-> "bytes"]
\* what File::create leaves before anything is copied into the file
Truncated == Text(<<>>)

\* TheiaPluginLCL::get_version; io is what the read of an existing file does
get_version(self, files, name, io) ==
    LET path == FileAt(Join(Join(self.directory, <<name>>), <<"extension.vsixmanifest">>))
    IN  IF path \notin DOMAIN files \/ io # "ok" \/ files[path].content.kind # "text"
        THEN [ok |-> FALSE, e |-> "read vsixmanifest"]
        ELSE IF xml_search_version(files[path].content.events) = None
             THEN [ok |-> FALSE, e |-> "not find version"]
        ELSE IF ~FromStr(xml_search_version(files[path].content.events)[1]).ok
             THEN [ok |-> FALSE, e |-> "version error"]
        ELSE [ok |-> TRUE,
              v |-> FromStr(xml_search_version(files[path].content.events)[1]).v]

\* std::fs::File::create, io::copy and set_permissions on one entry
WriteFile(files, path, content, unix_mode) ==
    [p \in DOMAIN files \cup {path} |->
        IF p # path THEN files[p]
        ELSE [content |-> content,
              mode |-> IF unix_mode # None THEN unix_mode
                       ELSE IF path \in DOMAIN files THEN files[path].mode ELSE None]]

\* TheiaPluginLCL::savefile from entry i on.  fault is the one I/O failure of
\* this installation: [at, op], at = 0 for none, op "create", "write" or
\* "permission".  Gives [ok, files, writes].
RECURSIVE savefile(_, _, _, _, _, _)
savefile(files, writes, target, archive, i, fault) ==
    IF i > Len(archive) THEN [ok |-> TRUE, files |-> files, writes |-> writes]
    ELSE IF ~archive[i].readable \/ ~archive[i].is_file
         \* by_index(i) is not Ok, or the entry is a directory: on to the next
         THEN savefile(files, writes, target, archive, i + 1, fault)
    ELSE LET file_path == FileAt(Join(target, archive[i].name))
             entry == archive[i]
         IN  IF fault.at = i /\ fault.op = "create"
             THEN [ok |-> FALSE, files |-> files, writes |-> writes]
             ELSE IF fault.at = i /\ fault.op = "write"
             THEN [ok |-> FALSE,
                   files |-> WriteFile(files, file_path, Truncated, None),
                   writes |-> writes \cup {[path |-> file_path, content |-> Truncated]}]
             ELSE IF fault.at = i /\ fault.op = "permission" /\ entry.unix_mode # None
             THEN [ok |-> FALSE,
                   files |-> WriteFile(files, file_path, entry.content, None),
                   writes |-> writes \cup {[path |-> file_path, content |-> entry.content]}]
             ELSE savefile(WriteFile(files, file_path, entry.content, entry.unix_mode),
                           writes \cup {[path |-> file_path, content |-> entry.content]},
                           target, archive, i + 1, fault)

\* TheiaPluginLCL::installing; data is what was downloaded: a zip archive or not
installing(self, files, name, data, fault) ==
    IF ~data.zip THEN [ok |-> FALSE, files |-> files, writes |-> {}]
    ELSE savefile(files, {}, Join(self.directory, <<name>>), data.entries, 1, fault)

-----------------------------------------------------------------------------
(* The configuration and the inputs of a run *)

\* the registries in the order main's loop visits them, and their lists
Domains == <<"d1", "d2">>
List == [d \in {"d1", "d2"} |-> IF d = "d1" THEN <<"a", "b">> ELSE <<"c">>]
Units == UNION {{<<d, List[d][i]>> : i \in 1..Len(List[d])} : d \in DOMAIN List}
Unit(k, i) == <<Domains[k], List[Domains[k]][i]>>
DomainIndex(u) == CHOOSE k \in 1..Len(Domains) : Domains[k] = u[1]

\* TheiaPlugin::new(prefix, version, download, &opt.target) for a registry
plugin(d) ==
    [remote |-> [prefix |-> d, version |-> <<"tag_name">>, download |-> <<"assets", "url">>],
     native |-> [directory |-> <<"/", "plugins">>]]

ManifestPath(name) == <<"/", "plugins", name, "extension.vsixmanifest">>
UnderTarget(path, name) ==
    Len(path) > 3 /\ SubSeq(path, 1, 3) = <<"/", "plugins", name>>

Attribute(key, value) == [key |-> key, value |-> value, ok |-> TRUE, utf8 |-> TRUE]
Manifest(version) ==
    Text(<<[kind |-> "Start", name |-> "PackageManifest", attributes |-> <<>>],
           [kind |-> "Empty", name |-> "Identity",
            attributes |-> <<Attribute("Id", <<"x">>), Attribute("Version", version)>>],
           [kind |-> "End", name |-> "PackageManifest", attributes |-> <<>>]>>)
NoIdentity ==
    Text(<<[kind |-> "Start", name |-> "PackageManifest", attributes |-> <<>>],
           [kind |-> "End", name |-> "PackageManifest", attributes |-> <<>>]>>)

V100  == <<"1", ".", "0", ".", "0">>
V101  == <<"1", ".", "0", ".", "1">>
Vv101 == <<"v", "1", ".", "0", ".", "1">>
V200  == <<"2", ".", "0", ".", "0">>
V1x0  == <<"1", ".", "x", ".", "0">>

\* what may be installed before the run, per plugin name
InitialManifests(name) ==
    IF name = "a" THEN {None, Some(Manifest(V100)), Some(Manifest(Vv101))}
    ELSE IF name = "b" THEN {None, Some(Manifest(V200)), Some(Manifest(V101))}
    ELSE {Some(NoIdentity), Some(Manifest(V100))}

InitialFiles ==
    {[p \in {ManifestPath(n) : n \in {m \in {"a", "b", "c"} : f[m] # None}} |->
         [content |-> f[p[3]][1], mode |-> None]] :
       f \in {g \in [{"a", "b", "c"} -> UNION {InitialManifests(n) : n \in {"a", "b", "c"}}] :
                \A n \in {"a", "b", "c"} : g[n] \in InitialManifests(n)}}

\* the registry's answers to the metadata GET
Url == <<"u">>
Release(version, assets) ==
    [wellformed |-> TRUE,
     doc |-> JObject([k \in {"tag_name", "assets"} |->
                IF k = "tag_name" THEN version ELSE JArray(assets)])]
MetaResponses ==
    {[ok |-> FALSE],
     [ok |-> TRUE, body |-> [wellformed |-> FALSE]],
     [ok |-> TRUE, body |-> Release(JString(V101),
                                    <<JObject([k \in {"url"} |-> JString(Url)])>>)],
     [ok |-> TRUE, body |-> Release(JNumber,
                                    <<JObject([k \in {"url"} |-> JString(Url)])>>)],
     [ok |-> TRUE, body |-> Release(JString(V1x0),
                                    <<JObject([k \in {"url"} |-> JString(Url)])>>)],
     [ok |-> TRUE, body |-> Release(JString(V101), <<>>)]}

\* the entries an archive is made of
Entry(name, is_file, readable, content, unix_mode) ==
    [name |-> name, is_file |-> is_file, readable |-> readable, content |-> content,
     unix_mode |-> unix_mode]
ManifestEntry   == Entry(<<"extension.vsixmanifest">>, TRUE, TRUE, Manifest(V101), None)
MainEntry       == Entry(<<"main.js">>, TRUE, TRUE, Bytes, Some(493))
UnreadableEntry == Entry(<<"main.js">>, TRUE, FALSE, Bytes, None)
DirectoryEntry  == Entry(<<"lib">>, FALSE, TRUE, Bytes, None)
OutsideEntry    == Entry(<<"..", "b", "extension.vsixmanifest">>, TRUE, TRUE,
                         Manifest(V101), None)
Entries == {ManifestEntry, MainEntry, UnreadableEntry, DirectoryEntry, OutsideEntry}
Archives == UNION {[1..n -> Entries] : n \in 0..MaxEntries}
Zip(entries) == [zip |-> TRUE, entries |-> entries]
NotZip == [zip |-> FALSE]

NoFault == [at |-> 0, op |-> "none"]
Faults == {NoFault} \cup [at : 1..MaxEntries, op : {"create", "write", "permission"}]

\* the answers to the download GET in a run, and the I/O failures of a run
ArchiveResponses ==
    {[ok |-> FALSE],
     [ok |-> TRUE, data |-> NotZip],
     [ok |-> TRUE, data |-> Zip(<<ManifestEntry, MainEntry>>)],
     [ok |-> TRUE, data |-> Zip(<<DirectoryEntry, MainEntry>>)],
     [ok |-> TRUE, data |-> Zip(<<OutsideEntry, UnreadableEntry>>)]}
RunFaults ==
    {NoFault, [at |-> 1, op |-> "write"], [at |-> 2, op |-> "create"],
     [at |-> 2, op |-> "permission"]}

MetadataGet(u) == [by |-> u, kind |-> "metadata", url |-> <<plugin(u[1]).remote.prefix, u[2]>>]
ArchiveGet(u, url) == [by |-> u, kind |-> "archive", url |-> url]

Terminal == {"skipped", "installed", "failed"}
NoOutcome == [download |-> "none", install |-> "none"]

-----------------------------------------------------------------------------
(* main (main.rs 24-88) *)

IdleVersion == verA = <<>> /\ verB = <<>> /\ verPA = None /\ verPB = None /\ verOrd = None
IdleJson == api = [version |-> <<>>, download |-> <<>>] /\ json = JNumber
            /\ found = [version |-> None, download |-> None]

IdleArchive == arName = "a" /\ arData = NotZip /\ arFault = NoFault
               /\ arFiles = <<>> /\ arResult = None
IdleRun ==
    /\ config = [d \in DOMAIN List |-> FALSE]
    /\ mainpc = "done"
    /\ domain = Len(Domains) + 1
    /\ future_list = <<>>
    /\ pc = [u \in Units |-> "unspawned"]
    /\ version_old = [u \in Units |-> None]
    /\ version_new = [u \in Units |-> None]
    /\ download = [u \in Units |-> None]
    /\ outcome = [u \in Units |-> NoOutcome]
    /\ fs = <<>>
    /\ net = {}
    /\ written = [u \in Units |-> {}]

Init ==
    /\ config \in [DOMAIN List -> BOOLEAN]
    /\ mainpc = "loop"
    /\ domain = 1
    /\ future_list = <<>>
    /\ pc = [u \in Units |-> "unspawned"]
    /\ version_old = [u \in Units |-> None]
    /\ version_new = [u \in Units |-> None]
    /\ download = [u \in Units |-> None]
    /\ outcome = [u \in Units |-> NoOutcome]
    /\ fs \in InitialFiles
    /\ net = {}
    /\ written = [u \in Units |-> {}]
    /\ IdleVersion
    /\ IdleJson
    /\ IdleArchive

\* `_ => { warn!("{}: missing information", domain); continue; }`
MainMissing ==
    /\ mainpc = "loop" /\ domain <= Len(Domains)
    /\ ~config[Domains[domain]]
    /\ domain' = domain + 1
    /\ UNCHANGED <<config, mainpc, future_list, pc, version_old, version_new, download,
                   outcome, fs, net, written>>

\* the registry is complete: `let mut future_list = vec![];`
MainEnter ==
    /\ mainpc = "loop" /\ domain <= Len(Domains)
    /\ config[Domains[domain]]
    /\ mainpc' = "spawn"
    /\ future_list' = <<>>
    /\ UNCHANGED <<config, domain, pc, version_old, version_new, download, outcome, fs,
                   net, written>>

\* `future_list.push(task::spawn(upgrade(..)))` for the next entry of the list
MainSpawn ==
    /\ mainpc = "spawn"
    /\ Len(future_list) < Len(List[Domains[domain]])
    /\ LET u == Unit(domain, Len(future_list) + 1)
       IN  /\ future_list' = Append(future_list, u)
           /\ pc' = [pc EXCEPT ![u] = "read"]
    /\ UNCHANGED <<config, mainpc, domain, version_old, version_new, download, outcome,
                   fs, net, written>>

\* the list is exhausted: `task::block_on(async { join_all(future_list).await; })`
MainBlockOn ==
    /\ mainpc = "spawn"
    /\ Len(future_list) = Len(List[Domains[domain]])
    /\ mainpc' = "join"
    /\ UNCHANGED <<config, domain, future_list, pc, version_old, version_new, download,
                   outcome, fs, net, written>>

\* join_all is ready once a failure is seen (try_join_all)
JoinedOnFailure(futures) ==
    \/ \A i \in 1..Len(futures) : pc[futures[i]] \in Terminal
    \/ \E i \in 1..Len(futures) : pc[futures[i]] = "failed"

\* join_all is ready at once (nothing awaits the tasks)
JoinedAtOnce(futures) == TRUE

\* join_all(future_list) is ready when every task has returned
Joined(futures) == \A i \in 1..Len(futures) : pc[futures[i]] \in Terminal

\* block_on returns: on to the next registry
MainJoin ==
    /\ mainpc = "join"
    /\ Joined(future_list)
    /\ mainpc' = "loop"
    /\ domain' = domain + 1
    /\ UNCHANGED <<config, future_list, pc, version_old, version_new, download, outcome,
                   fs, net, written>>

\* the loop is over: `Ok(())`
MainReturn ==
    /\ mainpc = "loop" /\ domain > Len(Domains)
    /\ mainpc' = "done"
    /\ UNCHANGED <<config, domain, future_list, pc, version_old, version_new, download,
                   outcome, fs, net, written>>

-----------------------------------------------------------------------------
(* upgrade (main.rs 90-117) and TheiaPlugin::upgrade (lib.rs 36-46) *)

\* a failed read that is taken for "not installed": the task carries on
OnReadErrorCarryOn == "resolve"

\* `Err(e) => { warn!(..); return; }` on the installed-version read
OnReadError == "failed"

\* never the `latest is` arm
DecideAlwaysInstall(old, new) == IF old # None THEN "upgrade" ELSE "install"

\* the `latest is` arm whenever the installed version is not less than the latest
DecideNotLess(old, new) ==
    IF old # None /\ Cmp(old[1], new) # "Less" THEN "latest"
    ELSE IF old # None THEN "upgrade"
    ELSE "install"

\* `match version_old { Some(v) if v == version_new => .., Some(v) => .., None => .. }`
Decide(old, new) ==
    IF old # None /\ Eq(old[1], new) THEN "latest"
    ELSE IF old # None THEN "upgrade"
    ELSE "install"

\* the task's first await returns: plugin.get_install_info(&name); on Ok the
\* task goes on to plugin.get_last_version(path), which issues the metadata GET
ReadInstalled(u) ==
    /\ mainpc # "done"
    /\ pc[u] = "read"
    /\ \E io \in {"ok", "fault"} :
         LET r == get_version(plugin(u[1]).native, fs, u[2], io)
             next == IF r.ok THEN "resolve" ELSE OnReadError
         IN  /\ pc' = [pc EXCEPT ![u] = next]
             /\ version_old' = [version_old EXCEPT ![u] = IF r.ok THEN Some(r.v) ELSE None]
             /\ net' = IF next = "resolve" THEN net \cup {MetadataGet(u)} ELSE net
    /\ UNCHANGED <<config, mainpc, domain, future_list, version_new, download, outcome,
                   fs, written>>

\* the metadata GET returns: parse_json, the comparison and, unless the
\* installed version is the latest, the download GET of TheiaPlugin::upgrade
Resolved(u) ==
    /\ mainpc # "done"
    /\ pc[u] = "resolve"
    /\ \E response \in MetaResponses :
         LET r == IF response.ok THEN parse_json(plugin(u[1]).remote, response.body)
                  ELSE [ok |-> FALSE, e |-> "get"]
         IN  IF ~r.ok
             THEN /\ pc' = [pc EXCEPT ![u] = "failed"]
                  /\ UNCHANGED <<version_new, download, net>>
             ELSE /\ version_new' = [version_new EXCEPT ![u] = Some(r.version)]
                  /\ download' = [download EXCEPT ![u] = Some(r.download)]
                  /\ IF Decide(version_old[u], r.version) = "latest"
                     THEN /\ pc' = [pc EXCEPT ![u] = "skipped"]
                          /\ net' = net
                     ELSE /\ pc' = [pc EXCEPT ![u] = "download"]
                          /\ net' = net \cup {ArchiveGet(u, r.download)}
    /\ UNCHANGED <<config, mainpc, domain, future_list, version_old, outcome, fs, written>>

\* the download GET returns: on Ok, self.native.installing(name, &data)
Downloaded(u) ==
    /\ mainpc # "done"
    /\ pc[u] = "download"
    /\ \E response \in ArchiveResponses, fault \in RunFaults :
         IF ~response.ok
         THEN /\ pc' = [pc EXCEPT ![u] = "failed"]
              /\ outcome' = [outcome EXCEPT ![u] = [download |-> "err", install |-> "none"]]
              /\ UNCHANGED <<fs, written>>
         ELSE LET r == installing(plugin(u[1]).native, fs, u[2], response.data, fault)
              IN  /\ pc' = [pc EXCEPT ![u] = IF r.ok THEN "installed" ELSE "failed"]
                  /\ outcome' = [outcome EXCEPT ![u] =
                                   [download |-> "ok",
                                    install |-> IF r.ok THEN "ok" ELSE "err"]]
                  /\ fs' = r.files
                  /\ written' = [written EXCEPT ![u] = {w.path : w \in r.writes}]
    /\ UNCHANGED <<config, mainpc, domain, future_list, version_old, version_new,
                   download, net>>

Next ==
    \/ (MainMissing /\ UNCHANGED pureVars)
    \/ (MainEnter /\ UNCHANGED pureVars)
    \/ (MainSpawn /\ UNCHANGED pureVars)
    \/ (MainBlockOn /\ UNCHANGED pureVars)
    \/ (MainJoin /\ UNCHANGED pureVars)
    \/ (MainReturn /\ UNCHANGED pureVars)
    \/ \E u \in Units : ReadInstalled(u) /\ UNCHANGED pureVars
    \/ \E u \in Units : Resolved(u) /\ UNCHANGED pureVars
    \/ \E u \in Units : Downloaded(u) /\ UNCHANGED pureVars

Spec == Init /\ [][Next]_vars

-----------------------------------------------------------------------------
(* VersionSpec: two version strings are parsed and compared *)

Chars == {"0", "1", "v", "."}
Texts == UNION {[1..n -> Chars] : n \in 0..MaxLen}

\* the version strings of the test version_cmp and of the documentation
V000  == <<"0", ".", "0", ".", "0">>
V001  == <<"0", ".", "0", ".", "1">>
V010  == <<"0", ".", "1", ".", "0">>
V111  == <<"1", ".", "1", ".", "1">>
V0123 == <<"0", "1", ".", "2", ".", "3">>
V123  == <<"1", ".", "2", ".", "3">>
Vv234 == <<"v", "2", ".", "3", ".", "4">>
V234  == <<"2", ".", "3", ".", "4">>
Examples == {V000, V001, V010, V100, V111, V0123, V123, Vv234, V234}

VersionInit ==
    /\ verA \in Texts \cup Examples
    /\ verB \in Examples
    /\ verPA = None /\ verPB = None /\ verOrd = None
    /\ IdleRun /\ IdleJson /\ IdleArchive

\* Version::from_str on both strings
VersionParse ==
    /\ verPA = None
    /\ verPA' = Some(FromStr(verA))
    /\ verPB' = Some(FromStr(verB))
    /\ UNCHANGED <<verA, verB, verOrd, orchVars, jsonVars, arVars>>

\* the comparison operators on the two parsed versions
VersionCompare ==
    /\ verPA # None /\ verPA[1].ok /\ verPB[1].ok
    /\ verOrd = None
    /\ verOrd' = Some([cmp |-> Cmp(verPA[1].v, verPB[1].v),
                       eq |-> Eq(verPA[1].v, verPB[1].v)])
    /\ UNCHANGED <<verA, verB, verPA, verPB, orchVars, jsonVars, arVars>>

VersionNext == VersionParse \/ VersionCompare

VersionSpec == VersionInit /\ [][VersionNext]_vars

-----------------------------------------------------------------------------
(* JsonSpec: the two path descriptors are resolved against a document *)

Keys == {"assets", "url"}
Paths == {<<k>> : k \in Keys} \cup {<<k, l>> : k \in Keys, l \in Keys}

X == <<"X">>
Y == <<"Y">>
Leaves == {JString(X), JNumber}

\* the documents nested at most n deep
RECURSIVE Docs(_)
Docs(n) ==
    IF n = 0 THEN Leaves
    ELSE LET inner == Docs(n - 1)
         IN  Leaves
             \cup {JArray(<<>>), JObject(<<>>)}
             \cup {JArray(<<x>>) : x \in inner}
             \cup {JArray(<<x, JString(Y)>>) : x \in inner}
             \cup {JObject([k \in {key} |-> x]) : key \in Keys, x \in inner}
             \cup {JObject([k \in Keys |-> IF k = "assets" THEN x ELSE JString(Y)]) :
                     x \in inner}

JsonInit ==
    /\ api \in [version : Paths, download : Paths]
    /\ json \in Docs(MaxDepth)
    /\ found = [version |-> None, download |-> None]
    /\ IdleRun /\ IdleVersion /\ IdleArchive

SearchVersion ==
    /\ found.version = None
    /\ found' = [found EXCEPT !.version = Some(search_version(api, json))]
    /\ UNCHANGED <<api, json, orchVars, verVars, arVars>>

SearchDownload ==
    /\ found.download = None
    /\ found' = [found EXCEPT !.download = Some(search_download(api, json))]
    /\ UNCHANGED <<api, json, orchVars, verVars, arVars>>

JsonNext == SearchVersion \/ SearchDownload

JsonSpec == JsonInit /\ [][JsonNext]_vars

-----------------------------------------------------------------------------
(* ArchiveSpec: one archive is installed into the plugin directory *)

FilesBefore ==
    {<<>>,
     [p \in {ManifestPath("a")} |-> [content |-> Manifest(V100), mode |-> None]]}

ArchiveInit ==
    /\ arName \in {"a", "b"}
    /\ arData \in {NotZip} \cup {Zip(a) : a \in Archives}
    /\ arFault \in Faults
    /\ arFiles \in FilesBefore
    /\ arResult = None
    /\ IdleRun /\ IdleVersion /\ IdleJson

Install ==
    /\ arResult = None
    /\ arResult' = Some(installing(plugin("d1").native, arFiles, arName, arData, arFault))
    /\ UNCHANGED <<arName, arData, arFault, arFiles, orchVars, verVars, jsonVars>>

ArchiveNext == Install

ArchiveSpec == ArchiveInit /\ [][ArchiveNext]_vars

-----------------------------------------------------------------------------
(* Properties of the upgrade run (Spec) *)

Active == {"read", "resolve", "download"}
MainNext == MainMissing \/ MainEnter \/ MainSpawn \/ MainBlockOn \/ MainJoin \/ MainReturn

\* C1: when install_dir/name/extension.vsixmanifest does not exist, the
\* installed-version read returns "not installed" (no version) and no error:
\* the task leaves the read for the resolve step, with no installed version,
\* and does not end Failed there.
C1_MissingManifestIsNotInstalled ==
    [][\A u \in Units :
          (pc[u] = "read" /\ pc'[u] # "read" /\ ManifestPath(u[2]) \notin DOMAIN fs)
          => (pc'[u] = "resolve" /\ version_old'[u] = None)]_vars

\* C2: a unit whose read and resolve both succeeded and whose installed version
\* equals the latest ends Skipped; it issues no GET to the download URL and
\* writes no file.
C2_EqualIsSkipped ==
    \A u \in Units :
        (version_old[u] # None /\ version_new[u] # None
         /\ version_old[u][1] = version_new[u][1])
        => /\ pc[u] = "skipped"
           /\ \A r \in net : ~(r.by = u /\ r.kind = "archive")
           /\ written[u] = {}
           /\ outcome[u] = NoOutcome

C2_Witness ==
    \E u \in Units :
        /\ pc[u] = "skipped"
        /\ version_old[u] # None /\ version_old[u] = version_new[u]
        /\ ManifestPath(u[2]) \in DOMAIN fs
        /\ fs[ManifestPath(u[2])].content = Manifest(Vv101)

\* C3: a unit whose read and resolve both succeeded and whose installed version
\* is absent or differs from the latest (greater ones included) has issued the
\* GET to the resolved download URL; the installer runs when, and only when,
\* the download has succeeded; the unit ends Installed exactly when download and installation
\* both succeeded and Failed exactly when one of them failed.
C3_DifferentIsInstalled ==
    \A u \in Units :
        (version_new[u] # None
         /\ (version_old[u] = None \/ version_old[u][1] # version_new[u][1]))
        => /\ download[u] # None
           /\ ArchiveGet(u, download[u][1]) \in net
           /\ pc[u] \in {"download", "installed", "failed"}
           /\ pc[u] = "download" <=> outcome[u] = NoOutcome
           /\ outcome[u].install # "none" <=> outcome[u].download = "ok"
           /\ pc[u] = "installed"
                <=> (outcome[u].download = "ok" /\ outcome[u].install = "ok")
           /\ pc[u] = "failed"
                <=> (outcome[u].download = "err" \/ outcome[u].install = "err")

C3_Witness ==
    \E u \in Units :
        /\ pc[u] = "installed"
        /\ version_old[u] # None /\ version_new[u] # None
        /\ Cmp(version_old[u][1], version_new[u][1]) = "Greater"
        /\ written[u] # {}

\* C4: failures are isolated.  A step in which a unit fails changes nothing of
\* any other unit; an outcome once reached never changes; a unit under way is
\* never cut off by the end of main, which comes only when every unit of every
\* complete registry has reached its outcome; until then either main or a unit
\* under way has a step to take, whatever has failed.
C4_FailuresAreIsolated ==
    /\ [](/\ \A v \in Units : pc[v] \in Active => mainpc # "done"
          /\ mainpc = "done" =>
                 /\ domain = Len(Domains) + 1
                 /\ \A v \in Units : config[v[1]] => pc[v] \in Terminal
          /\ mainpc = "join" =>
                 \/ \A i \in 1..Len(future_list) : pc[future_list[i]] \in Terminal
                 \/ \E i \in 1..Len(future_list) : pc[future_list[i]] \in Active)
    /\ [][\A u \in Units, v \in Units :
            /\ (u # v /\ pc[u] # "failed" /\ pc'[u] = "failed")
               => /\ pc'[v] = pc[v]
                  /\ version_old'[v] = version_old[v]
                  /\ version_new'[v] = version_new[v]
                  /\ download'[v] = download[v]
                  /\ outcome'[v] = outcome[v]
                  /\ written'[v] = written[v]
            /\ pc[v] \in Terminal => pc'[v] = pc[v]]_vars

C4_Witness ==
    /\ mainpc = "done"
    /\ pc[<<"d1", "a">>] = "failed"
    /\ pc[<<"d1", "b">>] = "installed"
    /\ pc[<<"d2", "c">>] = "installed"

\* C5: every file a unit's installation writes lies under
\* target_dir/<that unit's plugin name>/, whatever the archive's entries are.
C5_WritesStayInOwnDirectory ==
    \A u \in Units : \A path \in written[u] : UnderTarget(path, u[2])

\* C8 as stated: the read and the fetch are both started at Start, neither
\* waiting for the other's result: once the read has returned, the fetch has
\* been issued.
C8_BothStartedAtStart ==
    \A u \in Units : pc[u] \notin {"unspawned", "read"} => MetadataGet(u) \in net

\* C8, amended: the installed-version read runs first and the latest-version
\* fetch is issued only once the read has returned a version (a failed read
\* ends the unit with no fetch issued); the compare step, and all that follows
\* it, happens only after both have completed.
C8_ReadThenFetch ==
    \A u \in Units :
        /\ MetadataGet(u) \in net => version_old[u] # None
        /\ version_new[u] # None => MetadataGet(u) \in net
        /\ (pc[u] \in {"skipped", "download", "installed"} \/ outcome[u] # NoOutcome)
           => (version_old[u] # None /\ version_new[u] # None)
        /\ (pc[u] = "failed" /\ version_old[u] = None) => MetadataGet(u) \notin net

C8_Witness ==
    \E u \in Units, v \in Units :
        /\ pc[u] = "failed" /\ MetadataGet(u) \notin net
        /\ pc[v] = "resolve" /\ MetadataGet(v) \in net /\ version_new[v] = None

\* C10 as stated: the orchestrator does not wait for the units of one registry
\* to finish before it starts the units of the next: while a unit of a later
\* registry is still to be spawned, main can take a step.
C10_NoWaitBetweenRegistries ==
    (\E u \in Units, v \in Units :
        /\ DomainIndex(u) < DomainIndex(v)
        /\ pc[u] \in Active
        /\ config[v[1]] /\ pc[v] = "unspawned")
    => ENABLED MainNext

\* C10, amended: the units of one registry run in parallel with each other, and
\* the registries are handled one after another: no unit of a registry is
\* spawned before every unit of the registries before it has reached its
\* outcome.
C10_RegistriesInTurn ==
    \A u \in Units, v \in Units :
        (DomainIndex(u) < DomainIndex(v) /\ pc[v] # "unspawned")
        => pc[u] \in Terminal \cup {"unspawned"}
           /\ (config[u[1]] => pc[u] \in Terminal)

C10_Witness ==
    /\ pc[<<"d2", "c">>] = "read"
    /\ pc[<<"d1", "a">>] \in Terminal
    /\ pc[<<"d1", "b">>] \in Terminal

-----------------------------------------------------------------------------
(* Properties of Version (VersionSpec) *)

LexLess(a, b) ==
    \/ a.major < b.major
    \/ a.major = b.major /\ a.minor < b.minor
    \/ a.major = b.major /\ a.minor = b.minor /\ a.patch < b.patch

Converse(o) == IF o = "Less" THEN "Greater" ELSE IF o = "Greater" THEN "Less" ELSE "Equal"

Less(s, t) ==
    FromStr(s).ok /\ FromStr(t).ok /\ Cmp(FromStr(s).v, FromStr(t).v) = "Less"
Same(s, t) ==
    /\ FromStr(s).ok /\ FromStr(t).ok
    /\ FromStr(s).v = FromStr(t).v
    /\ Cmp(FromStr(s).v, FromStr(t).v) = "Equal"
    /\ Eq(FromStr(s).v, FromStr(t).v)

\* C6: the comparison of versions is the lexicographic order on the parsed
\* (major, minor, patch): total, transitive, v == v; "0.0.0" < "0.0.1" < "0.1.0"
\* < "1.0.0" < "1.1.1"; strings that parse to the same triple compare equal
\* ("01.2.3" and "1.2.3", "v2.3.4" and "2.3.4").
C6_VersionOrder ==
    /\ verOrd # None =>
         LET a == verPA[1].v
             b == verPB[1].v
             o == verOrd[1]
         IN  /\ o.cmp = "Less" <=> LexLess(a, b)
             /\ o.cmp = "Greater" <=> LexLess(b, a)
             /\ o.cmp = "Equal" <=> a = b
             /\ o.eq <=> a = b
             /\ Cmp(b, a) = Converse(o.cmp)
             /\ Cmp(a, a) = "Equal" /\ Eq(a, a)
             /\ \A t \in Examples :
                  (o.cmp # "Greater" /\ Cmp(b, FromStr(t).v) # "Greater")
                  => Cmp(a, FromStr(t).v) # "Greater"
    /\ Less(V000, V001) /\ Less(V001, V010) /\ Less(V010, V100) /\ Less(V100, V111)
    /\ Same(V0123, V123) /\ Same(Vv234, V234)

C6_Witness ==
    /\ verA = V0123 /\ verB = V123
    /\ verOrd # None /\ verOrd[1].cmp = "Equal" /\ verOrd[1].eq

-----------------------------------------------------------------------------
(* Properties of the path walk (JsonSpec) *)

\* the walk as the documentation states it: at each step an array is replaced
\* by its element 0, then the key is applied; gives the node left after the
\* last key
RECURSIVE DescendThenKey(_, _, _)
DescendThenKey(node, path, i) ==
    IF i > Len(path) THEN Some(node)
    ELSE LET current == IF is_array(node) THEN Get0(node) ELSE Some(node)
         IN  IF current = None THEN None
             ELSE IF Get(current[1], path[i]) = None THEN None
             ELSE DescendThenKey(Get(current[1], path[i])[1], path, i + 1)

AsStated(doc, path) ==
    IF DescendThenKey(doc, path, 1) = None THEN None
    ELSE as_str(DescendThenKey(doc, path, 1)[1])

AsAmended(doc, path) ==
    IF is_array(doc) \/ DescendThenKey(doc, path, 1) = None THEN None
    ELSE LET last == DescendThenKey(doc, path, 1)[1]
         IN  IF ~is_array(last) THEN as_str(last)
             ELSE IF Get0(last) = None THEN None
             ELSE as_str(Get0(last)[1])

ExampleDoc ==
    JObject([k \in {"assets"} |-> JArray(<<JObject([l \in {"url"} |-> JString(X)])>>)])

\* C7 as stated: every document and descriptor resolve by the array-descent
\* rule, element 0 first and the key after, and the node left after the last
\* key must itself be a string.
C7_DescendBeforeKey ==
    /\ found.version # None => found.version[1] = AsStated(json, api.version)
    /\ found.download # None => found.download[1] = AsStated(json, api.download)

\* C7, amended: each key is applied to the current node, which must be an
\* object holding it, and if the value found is an array the walk then descends
\* into its element 0 (an empty array fails).  So a document whose root is an
\* array does not resolve, and a value that is an array after the last key
\* resolves to its element 0 when that is a string; everywhere else the result
\* is that of the rule as stated.  {"assets":[{"url":"X"}]} with
\* ["assets","url"] gives "X".
C7_KeyBeforeDescend ==
    /\ found.version # None => found.version[1] = AsAmended(json, api.version)
    /\ found.download # None => found.download[1] = AsAmended(json, api.download)
    /\ search_version([version |-> <<"assets", "url">>], ExampleDoc) = Some(X)
    /\ search_download([download |-> <<"assets", "url">>], ExampleDoc) = Some(X)

C7_Witness ==
    /\ json = JObject([k \in {"assets"} |-> JArray(<<JString(X), JString(Y)>>)])
    /\ api.version = <<"assets">>
    /\ found.version = Some(Some(X))

-----------------------------------------------------------------------------
(* Properties of the installation (ArchiveSpec) *)

\* C9: the installation returns success only if every file entry of the
\* archive was written to target_dir/relative_path with the entry's content;
\* an entry that cannot be read is an error, not skipped.
C9_SuccessMeansEveryEntryWritten ==
    (arResult # None /\ arResult[1].ok)
    => /\ arData.zip
       /\ \A i \in 1..Len(arData.entries) :
            arData.entries[i].is_file
            => [path |-> FileAt(Join(<<"/", "plugins", arName>>, arData.entries[i].name)),
                content |-> arData.entries[i].content] \in arResult[1].writes

====
